---- MODULE Spec2Model ----
(***************************************************************************)
(* Model of src/script.js: the page controller that takes a face image     *)
(* from a file input or from the camera, posts it to /analyze and shows     *)
(* the result panel or the error banner.                                    *)
(*                                                                          *)
(* Every event handler and every promise callback runs to completion on     *)
(* the single JavaScript thread, so each is one atomic action.  A           *)
(* .then(...).catch(...) chain that settles is one action as well: its      *)
(* callbacks run as consecutive microtasks, and no user event is            *)
(* dispatched between them.                                                 *)
(*                                                                          *)
(* Strings whose content is computed on (file type, face shape, data URL,   *)
(* percentage) are sequences of one-character strings.  An optional JSON    *)
(* field is <<>> when absent and <<v>> when present with value v.           *)
(***************************************************************************)
EXTENDS Integers, Sequences, FiniteSets, TLC

\* ------------------------------------------------------------------ bounds
MaxInFlight == 2      \* submissions that may be pending at once
MaxPendingAcq == 2    \* getUserMedia promises that may be pending at once
MaxStreams == 2       \* device streams that may have live tracks at once

\* --------------------------------------------------------------- constants
ValidationMsg == "Please select an image file (jpg, png, etc.)"
CameraErrorMsg == "Could not access the camera. Please check permissions or use the file upload option."
UnsupportedMsg == "Your browser does not support camera access. Please use the file upload option."
TransportMsg == "An error occurred while processing the image. Please try again."
UnknownErrorMsg == "An unknown error occurred during face analysis."

VARIABLES
    supported,        \* navigator.mediaDevices.getUserMedia exists on this host
    isCameraActive,   \* let isCameraActive
    stream,           \* let stream: 0 is null, otherwise the id of a MediaStream
    live,             \* ids of the MediaStreams whose tracks have not been stopped
    pendingAcq,       \* number of getUserMedia promises not yet settled
    video,            \* the <video> element: srcObject, videoWidth, videoHeight
    ui,               \* visibility (absence of d-none) and content of the regions
    inflight,         \* fetch('/analyze') promises not yet settled, in issue order
    lastEvent         \* the handler that ran last, with its input and what it did

vars == <<supported, isCameraActive, stream, live, pendingAcq, video, ui, inflight, lastEvent>>

\* ------------------------------------------------------------ input domains
\* file.type values offered by the file input
ImagePng == <<"i","m","a","g","e","/","p","n","g">>
TextPlain == <<"t","e","x","t","/","p","l","a","i","n">>
NoType == <<>>
FileTypes == {ImagePng, TextPlain, NoType}

\* (videoWidth, videoHeight) a device reports once it is streaming
FrameSizes == {<<4, 3>>}

\* the error a rejected getUserMedia promise carries
AcquisitionErrors == {"NotAllowedError", "NotFoundError"}

\* the error a rejected fetch promise carries
NetworkErrors == {"Failed to fetch", "NetworkError when attempting to fetch resource."}

\* the errors response.json() and handleAnalysisResult throw
SyntaxErrorDetail == "SyntaxError: Unexpected token"
TypeErrorDetail == "TypeError: Cannot read properties of undefined"

\* HTTP status of a response
Statuses == {200, 500}

ErrorValues == {<<>>, <<"">>, <<"no face detected">>}
SuccessValues == {<<>>, <<TRUE>>, <<FALSE>>}
MessageValues == {<<>>, <<"">>, <<"bad image">>}
Oval == <<"o","v","a","l">>
FaceShapeValues == {<<>>, <<Oval>>}
MeasurementsValues == {<<>>, <<"measurements">>}
ConfidenceValues == {<<>>, <<873>>}          \* thousandths: 873 is 0.873

\* the JSON value null, and a full result object
NullData == [isNull |-> TRUE, error |-> <<>>, success |-> <<>>, message |-> <<>>,
             face_shape |-> <<>>, measurements |-> <<>>, confidence |-> <<>>]
NoData == [NullData EXCEPT !.isNull = FALSE]

\* Parsed response bodies: every combination of the fields read on the
\* error paths, every combination of the fields read on the result path.
Responses ==
    {NullData}
    \cup [isNull : {FALSE}, error : ErrorValues, success : SuccessValues,
          message : MessageValues, face_shape : {<<Oval>>},
          measurements : {<<"measurements">>}, confidence : {<<873>>}]
    \cup [isNull : {FALSE}, error : {<<>>, <<"">>}, success : {<<TRUE>>},
          message : {<<>>}, face_shape : FaceShapeValues,
          measurements : MeasurementsValues, confidence : ConfidenceValues]

\* One parsed body for each path through handleAnalysisResult
FullResult == [NoData EXCEPT !.success = <<TRUE>>, !.face_shape = <<Oval>>,
                             !.measurements = <<"measurements">>, !.confidence = <<873>>]
CoreResponses ==
    {NullData,
     [NoData EXCEPT !.error = <<"no face detected">>],
     [NoData EXCEPT !.success = <<FALSE>>, !.message = <<"bad image">>],
     [NoData EXCEPT !.success = <<FALSE>>],
     FullResult,
     [FullResult EXCEPT !.face_shape = <<>>],
     [FullResult EXCEPT !.confidence = <<>>]}

\* ------------------------------------------------------------ pure helpers
\* file.type.match('image.*'): the regular expression is not anchored
MatchImage(type) ==
    \E i \in 1..Len(type) :
        i + 4 <= Len(type) /\ SubSeq(type, i, i + 4) = <<"i","m","a","g","e">>

\* JavaScript truthiness of an optional string / boolean field
TruthyStr(f) == f # <<>> /\ f[1] # ""
TruthyBool(f) == f # <<>> /\ f[1]

UpperOf(c) ==
    CASE c = "o" -> "O" [] c = "v" -> "V" [] c = "a" -> "A" [] c = "l" -> "L"
      [] OTHER -> c
toUpperCase(s) == [i \in 1..Len(s) |-> UpperOf(s[i])]

DigitChar(d) == <<"0","1","2","3","4","5","6","7","8","9">>[d + 1]
RECURSIVE NumberToString(_)
NumberToString(n) ==
    IF n < 10 THEN <<DigitChar(n)>>
    ELSE Append(NumberToString(n \div 10), DigitChar(n % 10))

\* Math.round(confidence * 100) with confidence in thousandths
RoundPercent(c) == (c + 5) \div 10

\* `${Math.round(data.confidence * 100)}%`
ConfidenceText(f) ==
    IF f = <<>> THEN <<"N","a","N","%">>
    ELSE Append(NumberToString(RoundPercent(f[1])), "%")

\* canvas.toDataURL('image/jpeg') of a canvas of the given size
EmptyDataURL == <<"d","a","t","a",":",",">>
JpegDataURL == <<"d","a","t","a",":","i","m","a","g","e","/","j","p","e","g",
                 ";","b","a","s","e","6","4",",","Q">>
toDataURL(w, h) == IF w = 0 \/ h = 0 THEN EmptyDataURL ELSE JpegDataURL

\* capturePhoto called after stopCamera has detached the stream
capturePhoto_afterRelease == toDataURL(0, 0)

\* capturePhoto(): the canvas takes the video's size, the frame is drawn
capturePhoto == toDataURL(video.videoWidth, video.videoHeight)

EncodeChar(c) ==
    CASE c = ":" -> <<"%","3","A">> [] c = "," -> <<"%","2","C">>
      [] c = "/" -> <<"%","2","F">> [] c = ";" -> <<"%","3","B">>
      [] OTHER -> <<c>>
RECURSIVE encodeURIComponent(_)
encodeURIComponent(s) ==
    IF s = <<>> THEN <<>> ELSE EncodeChar(Head(s)) \o encodeURIComponent(Tail(s))

\* the request processImageFile(file) hands to fetch
UploadRequest(type) ==
    [url |-> "/analyze", method |-> "POST", encoding |-> "multipart/form-data",
     field |-> "image", value |-> type]

\* the camera payload sent the way the upload is
CameraRequest_multipart(imageData) ==
    [url |-> "/analyze", method |-> "POST", encoding |-> "multipart/form-data",
     field |-> "image", value |-> imageData]

\* the request processImageData(imageData) hands to fetch
CameraRequest(imageData) ==
    [url |-> "/analyze", method |-> "POST",
     encoding |-> "application/x-www-form-urlencoded",
     field |-> "image_data", value |-> encodeURIComponent(imageData)]

\* fetch(url, options): the pending promise, kept with the target and the
\* encoding of the request it was created for (the body has left the page)
fetch(request) ==
    [url |-> request.url, method |-> request.method,
     encoding |-> request.encoding, field |-> request.field]

\* --------------------------------------------------------- region helpers
showLoading(u) == [u EXCEPT !.loading = TRUE, !.error = FALSE, !.result = FALSE]

hideLoading(u) == [u EXCEPT !.loading = FALSE]

showError_keepSpinner(u, message) ==
    [u EXCEPT !.errorText = message, !.error = TRUE]

showError(u, message) ==
    [hideLoading(u) EXCEPT !.errorText = message, !.error = TRUE]

\* stopCamera with classList.toggle in place of classList.add
stopCameraUI_toggle(u) ==
    [u EXCEPT !.camera = ~u.camera,
              !.buttonText = IF u.camera THEN "Use Camera" ELSE "Cancel",
              !.buttonClass = IF u.camera THEN "btn-primary" ELSE "btn-danger"]

\* stopCamera(), the part that touches the page
stopCameraUI(u) ==
    [u EXCEPT !.camera = FALSE, !.buttonText = "Use Camera", !.buttonClass = "btn-primary"]

\* startCamera(), fulfilment callback, the part that touches the page
startCameraUI(u) ==
    [u EXCEPT !.camera = TRUE, !.buttonText = "Cancel", !.buttonClass = "btn-danger"]

\* stopCamera without the reset of isCameraActive
stopCameraState_keepFlag ==
    /\ live' = IF stream # 0 THEN live \ {stream} ELSE live
    /\ video' = IF stream # 0 THEN [srcObject |-> 0, videoWidth |-> 0, videoHeight |-> 0]
                ELSE video
    /\ stream' = 0
    /\ isCameraActive' = isCameraActive

\* stopCamera(), the part that touches the stream, the video and the flag
stopCameraState ==
    /\ live' = IF stream # 0 THEN live \ {stream} ELSE live
    /\ video' = IF stream # 0 THEN [srcObject |-> 0, videoWidth |-> 0, videoHeight |-> 0]
                ELSE video
    /\ stream' = 0
    /\ isCameraActive' = FALSE

\* handleAnalysisResult with the success test placed before the error test
handleAnalysisResult_successFirst(u, data) ==
    LET u1 == hideLoading(u) IN
    IF data.isNull
    THEN [ui |-> u1, outcome |-> "none", threw |-> TRUE]
    ELSE IF ~TruthyBool(data.success)
    THEN [ui |-> showError(u1, IF TruthyStr(data.message) THEN data.message[1]
                                ELSE UnknownErrorMsg),
          outcome |-> "error", threw |-> FALSE]
    ELSE IF TruthyStr(data.error)
    THEN [ui |-> showError(u1, data.error[1]), outcome |-> "error", threw |-> FALSE]
    ELSE IF data.face_shape = <<>> \/ data.measurements = <<>>
    THEN [ui |-> u1, outcome |-> "none", threw |-> TRUE]
    ELSE [ui |-> [u1 EXCEPT !.resultHTML = [label |-> toUpperCase(data.face_shape[1]),
                                             confidence |-> ConfidenceText(data.confidence)],
                            !.result = TRUE],
          outcome |-> "result", threw |-> FALSE]

\* handleAnalysisResult(data): the page it leaves, what it showed, and
\* whether it threw (a TypeError on a property of null or undefined)
handleAnalysisResult(u, data) ==
    LET u1 == hideLoading(u) IN
    IF data.isNull
    THEN [ui |-> u1, outcome |-> "none", threw |-> TRUE]
    ELSE IF TruthyStr(data.error)
    THEN [ui |-> showError(u1, data.error[1]), outcome |-> "error", threw |-> FALSE]
    ELSE IF ~TruthyBool(data.success)
    THEN [ui |-> showError(u1, IF TruthyStr(data.message) THEN data.message[1]
                                ELSE UnknownErrorMsg),
          outcome |-> "error", threw |-> FALSE]
    ELSE IF data.face_shape = <<>> \/ data.measurements = <<>>
    THEN [ui |-> u1, outcome |-> "none", threw |-> TRUE]
    ELSE [ui |-> [u1 EXCEPT !.resultHTML = [label |-> toUpperCase(data.face_shape[1]),
                                             confidence |-> ConfidenceText(data.confidence)],
                            !.result = TRUE],
          outcome |-> "result", threw |-> FALSE]

catchTransport_silent(u, error) == hideLoading(u)

\* the banner given the error itself
catchTransport_leak(u, error) == [hideLoading(u) EXCEPT !.errorText = error, !.error = TRUE]

\* .catch(error => ...) of processImageFile and processImageData: the error
\* goes to console.error, the banner gets the fixed text
catchTransport(u, error) == showError(u, TransportMsg)

\* .catch(function(err) {...}) of startCamera: the error goes to
\* console.error, the banner gets the fixed text
catchCamera(u, err) == showError(u, CameraErrorMsg)

\* the chain without its .catch: an exception of the handler is lost
thenCatch_noCatch(u, data) ==
    LET r == handleAnalysisResult(u, data) IN
    [ui |-> r.ui, outcome |-> r.outcome, detail |-> ""]

\* .then(data => handleAnalysisResult(data)).catch(...)
thenCatch(u, data) ==
    LET r == handleAnalysisResult(u, data) IN
    IF r.threw THEN [ui |-> catchTransport(r.ui, TypeErrorDetail), outcome |-> "error",
                     detail |-> TypeErrorDetail]
    ELSE [ui |-> r.ui, outcome |-> r.outcome, detail |-> ""]

RemoveAt(s, i) == SubSeq(s, 1, i - 1) \o SubSeq(s, i + 1, Len(s))

\* ----------------------------------------------------------------- events
NoEvent == [name |-> "none", file |-> <<>>, vw |-> 0, vh |-> 0, wasActive |-> FALSE,
            sent |-> <<>>, status |-> 0, body |-> "none",
            data |-> NoData, outcome |-> "none", stale |-> FALSE, detail |-> ""]

Init ==
    /\ supported \in BOOLEAN
    /\ isCameraActive = FALSE
    /\ stream = 0
    /\ live = {}
    /\ pendingAcq = 0
    /\ video = [srcObject |-> 0, videoWidth |-> 0, videoHeight |-> 0]
    /\ ui = [camera |-> FALSE, loading |-> FALSE, result |-> FALSE, error |-> FALSE,
             errorText |-> "", resultHTML |-> [label |-> <<>>, confidence |-> <<>>],
             buttonText |-> "Use Camera", buttonClass |-> "btn-primary"]
    /\ inflight = <<>>
    /\ lastEvent = NoEvent

\* Each handler is written as its effect on the program's state, and the
\* action adds the record of the event to it.

\* imageUpload 'change' with no file chosen
FileSelectionEmptyEffect ==
    UNCHANGED <<supported, isCameraActive, stream, live, pendingAcq, video, ui, inflight>>

FileSelectionEmpty ==
    /\ FileSelectionEmptyEffect
    /\ lastEvent' = [NoEvent EXCEPT !.name = "FileSelectionEmpty"]

\* imageUpload 'change' with a file of the given declared type
FileSelectedEffect(type) ==
    /\ IF ~MatchImage(type)
       THEN /\ ui' = showError(ui, ValidationMsg)
            /\ inflight' = inflight
       ELSE /\ Len(inflight) < MaxInFlight
            /\ ui' = showLoading(ui)
            /\ inflight' = Append(inflight, fetch(UploadRequest(type)))
    /\ UNCHANGED <<supported, isCameraActive, stream, live, pendingAcq, video>>

FileSelected(type) ==
    /\ FileSelectedEffect(type)
    /\ lastEvent' = [NoEvent EXCEPT !.name = "FileSelected", !.file = <<type>>,
                                    !.sent = IF MatchImage(type)
                                             THEN <<UploadRequest(type)>> ELSE <<>>]

\* captureButton 'click'
CameraToggledEffect ==
    /\ IF isCameraActive
       THEN /\ stopCameraState
            /\ ui' = stopCameraUI(ui)
            /\ UNCHANGED pendingAcq
       ELSE IF supported
       THEN /\ pendingAcq < MaxPendingAcq
            /\ pendingAcq' = pendingAcq + 1
            /\ UNCHANGED <<isCameraActive, stream, live, video, ui>>
       ELSE /\ ui' = showError(ui, UnsupportedMsg)
            /\ UNCHANGED <<isCameraActive, stream, live, video, pendingAcq>>
    /\ UNCHANGED <<supported, inflight>>

CameraToggled ==
    /\ CameraToggledEffect
    /\ lastEvent' = [NoEvent EXCEPT !.name = "CameraToggled", !.wasActive = isCameraActive]

\* getUserMedia(...).then(function(mediaStream) {...})
AcquisitionSucceededEffect ==
    /\ pendingAcq > 0
    /\ Cardinality(live) < MaxStreams
    /\ LET mediaStream == CHOOSE id \in 1..MaxStreams :
                              id \notin live /\ \A j \in 1..(id - 1) : j \in live
       IN /\ stream' = mediaStream
          /\ live' = live \cup {mediaStream}
          /\ video' = [srcObject |-> mediaStream, videoWidth |-> 0, videoHeight |-> 0]
    /\ pendingAcq' = pendingAcq - 1
    /\ isCameraActive' = TRUE
    /\ ui' = startCameraUI(ui)
    /\ UNCHANGED <<supported, inflight>>

AcquisitionSucceeded ==
    /\ AcquisitionSucceededEffect
    /\ lastEvent' = [NoEvent EXCEPT !.name = "AcquisitionSucceeded"]

\* the rejection only logged
AcquisitionFailed_silent(err) ==
    /\ pendingAcq > 0
    /\ pendingAcq' = pendingAcq - 1
    /\ lastEvent' = [NoEvent EXCEPT !.name = "AcquisitionFailed", !.detail = err]
    /\ UNCHANGED <<supported, isCameraActive, stream, live, video, inflight, ui>>

\* getUserMedia(...).catch(function(err) {...})
AcquisitionFailedEffect(err) ==
    /\ pendingAcq > 0
    /\ pendingAcq' = pendingAcq - 1
    /\ ui' = catchCamera(ui, err)
    /\ UNCHANGED <<supported, isCameraActive, stream, live, video, inflight>>

AcquisitionFailed(err) ==
    /\ AcquisitionFailedEffect(err)
    /\ lastEvent' = [NoEvent EXCEPT !.name = "AcquisitionFailed", !.detail = err]

\* the video element learns the size of the stream it plays
VideoMetadataLoadedEffect ==
    /\ video.srcObject # 0
    /\ video.videoWidth = 0
    /\ \E size \in FrameSizes :
           video' = [video EXCEPT !.videoWidth = size[1], !.videoHeight = size[2]]
    /\ UNCHANGED <<supported, isCameraActive, stream, live, pendingAcq, ui, inflight>>

VideoMetadataLoaded ==
    /\ VideoMetadataLoadedEffect
    /\ lastEvent' = [NoEvent EXCEPT !.name = "VideoMetadataLoaded"]

\* capturePhotoButton 'click'
CaptureRequestedEffect ==
    /\ IF isCameraActive
       THEN LET photo == capturePhoto IN
            /\ Len(inflight) < MaxInFlight
            /\ stopCameraState
            /\ ui' = showLoading(stopCameraUI(ui))
            /\ inflight' = Append(inflight, fetch(CameraRequest(photo)))
       ELSE UNCHANGED <<isCameraActive, stream, live, video, ui, inflight>>
    /\ UNCHANGED <<supported, pendingAcq>>

CaptureRequested ==
    /\ CaptureRequestedEffect
    /\ lastEvent' = IF isCameraActive
                    THEN [NoEvent EXCEPT !.name = "CaptureRequested", !.wasActive = TRUE,
                                         !.vw = video.videoWidth, !.vh = video.videoHeight,
                                         !.sent = <<CameraRequest(capturePhoto)>>]
                    ELSE [NoEvent EXCEPT !.name = "CaptureRequested"]

\* cancelCaptureButton 'click'
CaptureCancelledEffect ==
    /\ stopCameraState
    /\ ui' = stopCameraUI(ui)
    /\ UNCHANGED <<supported, pendingAcq, inflight>>

CaptureCancelled ==
    /\ CaptureCancelledEffect
    /\ lastEvent' = [NoEvent EXCEPT !.name = "CaptureCancelled", !.wasActive = isCameraActive]

\* the rejected request sent again from the catch callback
ResponseNetworkFailed_retry(i, error) ==
    /\ i \in 1..Len(inflight)
    /\ inflight' = Append(RemoveAt(inflight, i), inflight[i])
    /\ ui' = catchTransport(ui, error)
    /\ lastEvent' = [NoEvent EXCEPT !.name = "Response", !.body = "network failure",
                                    !.stale = (i < Len(inflight)), !.detail = error,
                                    !.outcome = "error"]
    /\ UNCHANGED <<supported, isCameraActive, stream, live, pendingAcq, video>>

\* fetch rejects: the network failed
ResponseNetworkFailedEffect(i, error) ==
    /\ i \in 1..Len(inflight)
    /\ inflight' = RemoveAt(inflight, i)
    /\ ui' = catchTransport(ui, error)
    /\ UNCHANGED <<supported, isCameraActive, stream, live, pendingAcq, video>>

ResponseNetworkFailed(i, error) ==
    /\ ResponseNetworkFailedEffect(i, error)
    /\ lastEvent' = [NoEvent EXCEPT !.name = "Response", !.body = "network failure",
                                    !.stale = (i < Len(inflight)), !.detail = error,
                                    !.outcome = "error"]

\* fetch resolves, response.json() rejects: the body is not JSON
ResponseMalformedEffect(i, status) ==
    /\ i \in 1..Len(inflight)
    /\ inflight' = RemoveAt(inflight, i)
    /\ ui' = catchTransport(ui, SyntaxErrorDetail)
    /\ UNCHANGED <<supported, isCameraActive, stream, live, pendingAcq, video>>

ResponseMalformed(i, status) ==
    /\ ResponseMalformedEffect(i, status)
    /\ lastEvent' = [NoEvent EXCEPT !.name = "Response", !.body = "malformed",
                                    !.status = status,
                                    !.stale = (i < Len(inflight)),
                                    !.detail = SyntaxErrorDetail,
                                    !.outcome = "error"]

\* a request token compared at settlement: the response of a request that is
\* not the latest one is dropped
ResponseParsed_discardStale(i, status, data) ==
    /\ i \in 1..Len(inflight)
    /\ inflight' = RemoveAt(inflight, i)
    /\ ui' = IF i < Len(inflight) THEN ui ELSE thenCatch(ui, data).ui
    /\ lastEvent' = [NoEvent EXCEPT !.name = "Response", !.body = "parsed",
                                    !.status = status, !.data = data,
                                    !.stale = (i < Len(inflight)),
                                    !.detail = thenCatch(ui, data).detail,
                                    !.outcome = thenCatch(ui, data).outcome]
    /\ UNCHANGED <<supported, isCameraActive, stream, live, pendingAcq, video>>

\* fetch resolves, response.json() resolves with data
ResponseParsedEffect(i, status, data) ==
    /\ i \in 1..Len(inflight)
    /\ inflight' = RemoveAt(inflight, i)
    /\ ui' = thenCatch(ui, data).ui
    /\ UNCHANGED <<supported, isCameraActive, stream, live, pendingAcq, video>>

ResponseParsed(i, status, data) ==
    /\ ResponseParsedEffect(i, status, data)
    /\ lastEvent' = [NoEvent EXCEPT !.name = "Response", !.body = "parsed",
                                    !.status = status, !.data = data,
                                    !.stale = (i < Len(inflight)),
                                    !.detail = thenCatch(ui, data).detail,
                                    !.outcome = thenCatch(ui, data).outcome]

Next ==
    \/ FileSelectionEmpty
    \/ \E type \in FileTypes : FileSelected(type)
    \/ CameraToggled
    \/ AcquisitionSucceeded
    \/ \E err \in AcquisitionErrors : AcquisitionFailed(err)
    \/ VideoMetadataLoaded
    \/ CaptureRequested
    \/ CaptureCancelled
    \/ \E i \in 1..MaxInFlight, error \in NetworkErrors : ResponseNetworkFailed(i, error)
    \/ \E i \in 1..MaxInFlight, status \in Statuses : ResponseMalformed(i, status)
    \/ \E i \in 1..MaxInFlight, status \in Statuses, data \in CoreResponses :
           ResponseParsed(i, status, data)

Spec == Init /\ [][Next]_vars

\* a pending submission settles: one of the three outcomes of the chain
SubmissionSettles ==
    \/ \E i \in 1..MaxInFlight, error \in NetworkErrors : ResponseNetworkFailedEffect(i, error)
    \/ \E i \in 1..MaxInFlight, status \in Statuses : ResponseMalformedEffect(i, status)
    \/ \E i \in 1..MaxInFlight, status \in Statuses, data \in CoreResponses :
           ResponseParsedEffect(i, status, data)

\* a pending getUserMedia promise settles
AcquisitionSettles ==
    \/ AcquisitionSucceededEffect
    \/ \E err \in AcquisitionErrors : AcquisitionFailedEffect(err)

\* The effects of the handlers without the record of the event (a file
\* dialog closed without a file changes nothing and is a stuttering step).
NextLive ==
    /\ \/ \E type \in FileTypes : FileSelectedEffect(type)
       \/ CameraToggledEffect
       \/ VideoMetadataLoadedEffect
       \/ CaptureRequestedEffect
       \/ CaptureCancelledEffect
       \/ SubmissionSettles
       \/ AcquisitionSettles
    /\ UNCHANGED lastEvent

\* The program with every pending submission and every pending acquisition
\* eventually settling.
SpecLive ==
    /\ Init /\ [][NextLive]_vars
    /\ WF_vars(SubmissionSettles /\ UNCHANGED lastEvent)
    /\ WF_vars(AcquisitionSettles /\ UNCHANGED lastEvent)

\* The upload path alone, with every parsed body of Responses: the
\* specification under which the rendering of a response is checked.
NextRender ==
    \/ \E type \in FileTypes : FileSelected(type)
    \/ \E i \in 1..MaxInFlight, status \in Statuses, data \in Responses :
           ResponseParsed(i, status, data)

SpecRender == Init /\ [][NextRender]_vars

TypeOK ==
    /\ supported \in BOOLEAN
    /\ isCameraActive \in BOOLEAN
    /\ stream \in 0..MaxStreams
    /\ live \subseteq 1..MaxStreams
    /\ pendingAcq \in 0..MaxPendingAcq
    /\ Len(inflight) <= MaxInFlight

\* ------------------------------------------------------------------ claims
VisibleRegions ==
    {r \in {"camera", "loading", "result", "error"} : ui[r]}

Settled == lastEvent.name = "Response"
Parsed == Settled /\ lastEvent.body = "parsed" /\ ~lastEvent.data.isNull

\* C1: in every reachable state at most one of the camera view, the loading
\* spinner, the result panel and the error banner is visible.
C1_OneRegionVisible == Cardinality(VisibleRegions) <= 1

\* C2: right after a submission settles exactly one of the result panel and
\* the error banner is visible, and neither the spinner nor the camera view.
C2_SettledShowsOneOutcome ==
    Settled => /\ ui.result # ui.error
               /\ ~ui.loading
               /\ ~ui.camera

\* C3: at most one analysis submission is in flight at any time.
C3_OneSubmissionInFlight == Len(inflight) <= 1

\* C4: at most one device stream has live tracks, and a stream with live
\* tracks is the one the controller references.
C4_OneCaptureSession ==
    /\ Cardinality(live) <= 1
    /\ live \subseteq {stream}

\* C5: a device stream is open if and only if the camera view is the active
\* region; while the spinner, the result or the error is shown none is open.
C5_SessionIffCameraActive ==
    /\ (live # {}) <=> ui.camera
    /\ (ui.loading \/ ui.result \/ ui.error) => live = {}

\* C6: selecting a file whose type does not match the image pattern ends with
\* the validation message as the only visible region and sends no request.
C6_InvalidFileOnlyError ==
    (lastEvent.name = "FileSelected" /\ ~MatchImage(lastEvent.file[1]))
        => /\ VisibleRegions = {"error"}
           /\ ui.errorText = ValidationMsg
           /\ lastEvent.sent = <<>>

\* C7: a capture requested while the video reports zero width or height
\* fails instead of producing and submitting an image payload.
C7_ZeroSizeFrameNotReady ==
    (lastEvent.name = "CaptureRequested" /\ lastEvent.wasActive
        /\ (lastEvent.vw = 0 \/ lastEvent.vh = 0))
        => /\ lastEvent.sent = <<>>
           /\ ui.error

\* C8, as claimed: a non-2xx status, a malformed body or a network failure
\* all end with the generic transport failure message.
C8_Non2xxIsTransportError ==
    (Settled /\ (lastEvent.body \in {"network failure", "malformed"}
                 \/ lastEvent.status = 500))
        => ui.error /\ ui.errorText = TransportMsg

\* C8, amended: a network failure or a malformed body ends with the generic
\* transport failure message, whatever the status; a non-2xx response whose
\* body parses is rendered like any other parsed response.
C8_TransportError ==
    /\ (Settled /\ lastEvent.body \in {"network failure", "malformed"})
           => /\ ui.error
              /\ ui.errorText = TransportMsg
              /\ ~ui.loading
    /\ (Parsed /\ lastEvent.status = 500 /\ lastEvent.data.error = <<"no face detected">>)
           => ui.error /\ ui.errorText = "no face detected"

C8_Witness ==
    /\ Settled /\ lastEvent.body = "malformed" /\ lastEvent.status = 500
    /\ ui.error /\ ui.errorText = TransportMsg

\* C9, as claimed: an error field that is present is shown as the error;
\* otherwise success false shows message, or the fixed text when message is
\* absent.
C9_ErrorFieldPresent ==
    Parsed =>
        /\ lastEvent.data.error # <<>>
               => /\ lastEvent.outcome = "error"
                  /\ ui.error /\ ui.errorText = lastEvent.data.error[1]
        /\ (lastEvent.data.error = <<>> /\ lastEvent.data.success = <<FALSE>>)
               => /\ lastEvent.outcome = "error"
                  /\ ui.error
                  /\ ui.errorText = IF lastEvent.data.message # <<>>
                                    THEN lastEvent.data.message[1]
                                    ELSE UnknownErrorMsg

\* C9, amended: an error field that is present and not empty is shown as the
\* error, before success and message are looked at; otherwise success false
\* shows message, or the fixed text when message is absent or empty.
C9_ErrorFieldNonEmpty ==
    Parsed =>
        /\ (lastEvent.data.error # <<>> /\ lastEvent.data.error[1] # "")
               => /\ lastEvent.outcome = "error"
                  /\ ui.error /\ ui.errorText = lastEvent.data.error[1]
        /\ ((lastEvent.data.error = <<>> \/ lastEvent.data.error = <<"">>)
              /\ lastEvent.data.success = <<FALSE>>)
               => /\ lastEvent.outcome = "error"
                  /\ ui.error
                  /\ ui.errorText = IF lastEvent.data.message \in {<<>>, <<"">>}
                                    THEN UnknownErrorMsg
                                    ELSE lastEvent.data.message[1]

C9_Witness ==
    /\ Parsed
    /\ lastEvent.data.error = <<"no face detected">>
    /\ lastEvent.data.success = <<FALSE>>
    /\ lastEvent.data.message = <<"bad image">>
    /\ ui.error /\ ui.errorText = "no face detected"

\* C10: a parsed response without error field and with success true is shown
\* as a result, also when optional fields are absent; face shape "oval" is
\* labelled OVAL and confidence 0.873 reads 87%.
C10_SuccessShowsResult ==
    (Parsed /\ lastEvent.data.error = <<>> /\ lastEvent.data.success = <<TRUE>>)
        => /\ lastEvent.outcome = "result"
           /\ ui.result
           /\ lastEvent.data.face_shape = <<Oval>>
                  => ui.resultHTML.label = <<"O","V","A","L">>
           /\ lastEvent.data.confidence = <<873>>
                  => ui.resultHTML.confidence = <<"8","7","%">>

Released(ev) ==
    \/ ev.name = "CaptureCancelled"
    \/ ev.name \in {"CameraToggled", "CaptureRequested"} /\ ev.wasActive

\* C11: a release (cancel click) always ends with no stream, the flag off,
\* the camera view hidden and the toggle control reset, and a release that
\* follows a release changes nothing: it is the same state as after one.
C11_ReleaseIdempotent ==
    [][ /\ lastEvent'.name = "CaptureCancelled"
            => /\ stream' = 0 /\ video'.srcObject = 0
               /\ ~isCameraActive'
               /\ ~ui'.camera
               /\ ui'.buttonText = "Use Camera" /\ ui'.buttonClass = "btn-primary"
        /\ (Released(lastEvent) /\ lastEvent'.name = "CaptureCancelled")
            => UNCHANGED <<supported, isCameraActive, stream, live, pendingAcq,
                           video, ui, inflight>>
      ]_vars

C11_Witness ==
    /\ lastEvent.name = "CaptureCancelled" /\ ~lastEvent.wasActive
    /\ stream = 0 /\ ~isCameraActive /\ ~ui.camera /\ ui.buttonText = "Use Camera"

\* C12: a capture click on an active session submits exactly one request,
\* whose payload is the frame sampled before the release, with the stream
\* released and the spinner shown; a capture click without an active session
\* sends nothing and changes nothing.
C12_CaptureOrder ==
    [][ lastEvent'.name = "CaptureRequested"
          => IF isCameraActive
             THEN /\ stream' = 0 /\ stream \notin live' /\ ~isCameraActive'
                  /\ ~ui'.camera /\ ui'.loading
                  /\ Len(inflight') = Len(inflight) + 1
                  /\ SubSeq(inflight', 1, Len(inflight)) = inflight
                  /\ Len(lastEvent'.sent) = 1
                  /\ inflight'[Len(inflight')].field = "image_data"
                  /\ lastEvent'.sent[1].field = "image_data"
                  /\ (video.videoWidth > 0 /\ video.videoHeight > 0)
                        => lastEvent'.sent[1].value
                             = <<"d","a","t","a","%","3","A","i","m","a","g","e","%","2","F",
                                 "j","p","e","g","%","3","B","b","a","s","e","6","4",
                                 "%","2","C","Q">>
             ELSE /\ lastEvent'.sent = <<>>
                  /\ UNCHANGED <<supported, isCameraActive, stream, live, pendingAcq,
                                 video, ui, inflight>>
      ]_vars

C12_Witness ==
    /\ lastEvent.name = "CaptureRequested" /\ lastEvent.wasActive
    /\ lastEvent.vw > 0 /\ lastEvent.vh > 0
    /\ Len(lastEvent.sent) = 1
    /\ stream = 0 /\ ui.loading /\ ~ui.camera

\* C13: the camera becomes active only in the fulfilment of an acquisition;
\* a failed acquisition creates no session and shows the camera error; a host
\* without capture support shows the unsupported error at the click and never
\* requests the device.
C13_AcquisitionOutcome ==
    [][ /\ (~isCameraActive /\ isCameraActive') => lastEvent'.name = "AcquisitionSucceeded"
        /\ live' # live /\ live \subseteq live' => lastEvent'.name = "AcquisitionSucceeded"
        /\ lastEvent'.name = "AcquisitionFailed"
             => /\ UNCHANGED <<isCameraActive, stream, live, video>>
                /\ ui'.camera = ui.camera
                /\ ui'.error /\ ui'.errorText = CameraErrorMsg
        /\ ~supported
             => /\ pendingAcq' = 0 /\ live' = {} /\ ~isCameraActive'
                /\ lastEvent'.name = "CameraToggled"
                     => ui'.error /\ ui'.errorText = UnsupportedMsg
      ]_vars

C13_Witness ==
    /\ lastEvent.name = "AcquisitionFailed"
    /\ ~isCameraActive /\ stream = 0 /\ live = {} /\ ~ui.camera
    /\ ui.error /\ ui.errorText = CameraErrorMsg

AcceptedAction(ev) ==
    \/ ev.name = "FileSelected" /\ MatchImage(ev.file[1])
    \/ ev.name = "CaptureRequested" /\ ev.wasActive

\* C14: a step puts a request in flight only if it is an accepted user action
\* (a valid file selection, a capture on an active session), and then exactly
\* one; a settlement, failed or not, removes one request and sends none.
C14_NoRetry ==
    [][ /\ AcceptedAction(lastEvent')
             => /\ Len(lastEvent'.sent) = 1
                /\ Len(inflight') = Len(inflight) + 1
                /\ SubSeq(inflight', 1, Len(inflight)) = inflight
                /\ inflight'[Len(inflight')].encoding = lastEvent'.sent[1].encoding
        /\ lastEvent'.name = "Response"
             => /\ lastEvent'.sent = <<>>
                /\ \E i \in 1..Len(inflight) : inflight' = RemoveAt(inflight, i)
        /\ (~AcceptedAction(lastEvent') /\ lastEvent'.name # "Response")
             => inflight' = inflight /\ lastEvent'.sent = <<>>
      ]_vars

C14_Witness ==
    /\ lastEvent.name = "Response" /\ lastEvent.body = "network failure"
    /\ lastEvent.outcome = "error"
    /\ inflight = <<>>

\* C15: if every pending submission and acquisition eventually settles, a
\* visible spinner is eventually replaced by the result panel or the error
\* banner, and in every state the upload and the camera trigger can run.
C15_NoFatalError ==
    /\ ui.loading ~> (~ui.loading /\ (ui.result \/ ui.error))
    /\ [](Len(inflight) < MaxInFlight => ENABLED (FileSelectedEffect(ImagePng) /\ UNCHANGED lastEvent))
    /\ [](pendingAcq < MaxPendingAcq => ENABLED (CameraToggledEffect /\ UNCHANGED lastEvent))

C15_Witness ==
    /\ inflight = <<>> /\ pendingAcq = 0
    /\ ~ui.loading /\ ui.error /\ ui.errorText = TransportMsg

\* C16: nothing cancels or discards a submission: when a response settles
\* while a submission issued after it is still in flight, its outcome is
\* applied all the same (spinner hidden, result or error shown).
C16_StaleResponseApplied ==
    (lastEvent.name = "Response" /\ lastEvent.stale)
        => /\ inflight # <<>>
           /\ ~ui.loading
           /\ ui.result \/ ui.error
           /\ lastEvent.outcome = "result" => ui.result

C16_Witness ==
    /\ lastEvent.name = "Response" /\ lastEvent.stale
    /\ lastEvent.outcome = "result"
    /\ Len(inflight) = 1
    /\ ui.result /\ ~ui.loading

\* C17: every request goes to POST /analyze; a request sent by a file
\* selection is a multipart form with field image, a request sent by a camera
\* capture is a URL-encoded form with field image_data, never the reverse.
C17_EncodingBySource ==
    /\ \A k \in 1..Len(inflight) :
          /\ inflight[k].url = "/analyze" /\ inflight[k].method = "POST"
          /\ \/ inflight[k].encoding = "multipart/form-data" /\ inflight[k].field = "image"
             \/ /\ inflight[k].encoding = "application/x-www-form-urlencoded"
                /\ inflight[k].field = "image_data"
    /\ (lastEvent.name = "FileSelected" /\ lastEvent.sent # <<>>)
          => /\ lastEvent.sent[1].encoding = "multipart/form-data"
             /\ lastEvent.sent[1].field = "image"
             /\ lastEvent.sent[1].value = lastEvent.file[1]
    /\ (lastEvent.name = "CaptureRequested" /\ lastEvent.sent # <<>>)
          => /\ lastEvent.sent[1].encoding = "application/x-www-form-urlencoded"
             /\ lastEvent.sent[1].field = "image_data"

C17_Witness ==
    /\ lastEvent.name = "CaptureRequested" /\ lastEvent.wasActive
    /\ Len(inflight) = 2
    /\ inflight[1].field = "image" /\ inflight[1].encoding = "multipart/form-data"
    /\ inflight[2].field = "image_data"
    /\ inflight[2].encoding = "application/x-www-form-urlencoded"

\* C18: after a failed acquisition or a failed submission the page is a
\* function of the page before it and of the kind of failure: a fixed text,
\* the banner shown, the spinner hidden, the rest untouched.  The detail of
\* the error does not occur in it, so two runs that differ in the detail only
\* show the same.
C18_DetailNotShown ==
    [][ /\ lastEvent'.name = "AcquisitionFailed"
             => /\ lastEvent'.detail \in AcquisitionErrors
                /\ ui' = [ui EXCEPT !.loading = FALSE, !.error = TRUE,
                                    !.errorText = CameraErrorMsg]
        /\ (lastEvent'.name = "Response" /\ lastEvent'.detail # "")
             => ui' = [ui EXCEPT !.loading = FALSE, !.error = TRUE,
                                 !.errorText = TransportMsg]
        /\ ui'.errorText \notin AcquisitionErrors \cup NetworkErrors
                                  \cup {SyntaxErrorDetail, TypeErrorDetail}
      ]_vars

C18_Witness ==
    /\ lastEvent.name = "Response" /\ lastEvent.body = "network failure"
    /\ lastEvent.detail = "Failed to fetch"
    /\ ui.error /\ ui.errorText = TransportMsg

\* C19: the stream reference is set exactly when isCameraActive is true,
\* exactly when the camera view is visible.
C19_CameraIndicatorsAgree ==
    /\ (stream # 0) <=> isCameraActive
    /\ isCameraActive <=> ui.camera
    /\ ui.camera <=> (ui.buttonText = "Cancel")

C19_Witness ==
    /\ lastEvent.name = "CameraToggled" /\ lastEvent.wasActive
    /\ stream = 0 /\ ~isCameraActive /\ ~ui.camera
    /\ live # {}

\* C20: the spinner is never visible together with the result panel or the
\* error banner, and while it is visible a submission is in flight.
C20_SpinnerAlone ==
    /\ ~(ui.loading /\ ui.result)
    /\ ~(ui.loading /\ ui.error)
    /\ ui.loading => inflight # <<>>

C20_Witness ==
    /\ ui.loading /\ Len(inflight) = 2
    /\ lastEvent.name = "CaptureRequested" /\ lastEvent.wasActive
====
